---- MODULE Spec2Model ----
(***************************************************************************)
(* NullForge security auditor (src/security_auditor/src/auditor.py).       *)
(* The model follows SecurityAuditor.scan() through its file loop, the     *)
(* dependency scan, the severity sort and the return of the AuditReport,   *)
(* and main() up to the process exit code.  Regular expressions, the       *)
(* Python parser and the file system are inputs: a line is a text whose    *)
(* matches are tabulated, a file carries the outcome of ast.parse, a       *)
(* directory entry carries what read_text does on it.                      *)
(***************************************************************************)
EXTENDS Integers, Sequences, FiniteSets, TLC

\* ---------------------------------------------------------------- bounds
MaxLines == 2        \* lines per source file
MaxRuns == 2         \* invocations of the command over the same tree
MaxScans == 2        \* scan() calls a library caller makes on one auditor
LongLen == 6         \* lines of the long source file

\* ------------------------------------------------------------ severities
SeveritySet == {"CRITICAL", "HIGH", "MEDIUM", "LOW", "INFO"}

severity_order(s) ==
  CASE s = "CRITICAL" -> 0
    [] s = "HIGH" -> 1
    [] s = "MEDIUM" -> 2
    [] s = "LOW" -> 3
    [] s = "INFO" -> 4

weights(s) ==
  CASE s = "CRITICAL" -> 25
    [] s = "HIGH" -> 15
    [] s = "MEDIUM" -> 5
    [] s = "LOW" -> 2
    [] s = "INFO" -> 0

\* ---------------------------------------------------------- the registry
\* A pattern is named by its position in the registry; BadPattern stands
\* for a pattern text that re.compile rejects.
BadPattern == 0

LoadSecurityPatterns ==
  << [pattern |-> 1, category |-> "secrets", title |-> "Hardcoded Password",
      severity |-> "CRITICAL", cwe |-> "CWE-798", owasp |-> "A07:2021",
      description |-> "Hardcoded password found in source code. This is a critical security vulnerability.",
      recommendation |-> "Use environment variables or a secure secrets manager."],
     [pattern |-> 2, category |-> "secrets", title |-> "Hardcoded API Key",
      severity |-> "CRITICAL", cwe |-> "CWE-798", owasp |-> "A07:2021",
      description |-> "API key or secret key hardcoded in source code.",
      recommendation |-> "Store API keys in environment variables or secure vault."],
     [pattern |-> 3, category |-> "secrets", title |-> "AWS Credentials Exposed",
      severity |-> "CRITICAL", cwe |-> "CWE-798", owasp |-> "A07:2021",
      description |-> "AWS credentials found hardcoded in source code.",
      recommendation |-> "Use IAM roles or AWS Secrets Manager."],
     [pattern |-> 4, category |-> "secrets", title |-> "Private Key in Source",
      severity |-> "CRITICAL", cwe |-> "CWE-321", owasp |-> "A07:2021",
      description |-> "Private key found in source code.",
      recommendation |-> "Never commit private keys. Use secure key management."],
     [pattern |-> 5, category |-> "injection", title |-> "Potential SQL Injection",
      severity |-> "HIGH", cwe |-> "CWE-89", owasp |-> "A03:2021",
      description |-> "String formatting in SQL query may allow SQL injection.",
      recommendation |-> "Use parameterized queries or ORM methods."],
     [pattern |-> 6, category |-> "injection", title |-> "SQL Injection Risk",
      severity |-> "HIGH", cwe |-> "CWE-89", owasp |-> "A03:2021",
      description |-> "Dynamic SQL query construction detected.",
      recommendation |-> "Use query parameters: cursor.execute(sql, (param,))"],
     [pattern |-> 7, category |-> "injection", title |-> "Command Injection Risk",
      severity |-> "HIGH", cwe |-> "CWE-78", owasp |-> "A03:2021",
      description |-> "Shell=True with subprocess may allow command injection.",
      recommendation |-> "Avoid shell=True, use list of arguments instead."],
     [pattern |-> 8, category |-> "injection", title |-> "Dangerous eval() Usage",
      severity |-> "HIGH", cwe |-> "CWE-95", owasp |-> "A03:2021",
      description |-> "eval() can execute arbitrary code if input is not sanitized.",
      recommendation |-> "Use ast.literal_eval() for safe evaluation or avoid eval entirely."],
     [pattern |-> 9, category |-> "injection", title |-> "Dangerous exec() Usage",
      severity |-> "HIGH", cwe |-> "CWE-95", owasp |-> "A03:2021",
      description |-> "exec() can execute arbitrary code.",
      recommendation |-> "Avoid exec() with user-controlled input."],
     [pattern |-> 10, category |-> "xss", title |-> "Potential XSS via innerHTML",
      severity |-> "MEDIUM", cwe |-> "CWE-79", owasp |-> "A03:2021",
      description |-> "Setting innerHTML can lead to XSS if content is not sanitized.",
      recommendation |-> "Use textContent or sanitize HTML before insertion."],
     [pattern |-> 11, category |-> "xss", title |-> "Jinja2 Safe Filter Risk",
      severity |-> "MEDIUM", cwe |-> "CWE-79", owasp |-> "A03:2021",
      description |-> "The |safe filter disables auto-escaping in Jinja2.",
      recommendation |-> "Only use |safe with trusted, sanitized content."],
     [pattern |-> 12, category |-> "xss", title |-> "Django mark_safe Risk",
      severity |-> "MEDIUM", cwe |-> "CWE-79", owasp |-> "A03:2021",
      description |-> "mark_safe() marks content as safe HTML without escaping.",
      recommendation |-> "Ensure content is properly sanitized before using mark_safe."],
     [pattern |-> 13, category |-> "crypto", title |-> "Weak Hash Algorithm",
      severity |-> "MEDIUM", cwe |-> "CWE-328", owasp |-> "A02:2021",
      description |-> "MD5 and SHA1 are cryptographically weak.",
      recommendation |-> "Use SHA-256 or stronger for security-sensitive hashing."],
     [pattern |-> 14, category |-> "crypto", title |-> "Weak Encryption Algorithm",
      severity |-> "HIGH", cwe |-> "CWE-327", owasp |-> "A02:2021",
      description |-> "Using outdated or weak encryption algorithm.",
      recommendation |-> "Use AES-256 or ChaCha20 for encryption."],
     [pattern |-> 15, category |-> "crypto", title |-> "Insecure Random Number Generator",
      severity |-> "MEDIUM", cwe |-> "CWE-330", owasp |-> "A02:2021",
      description |-> "Using non-cryptographic random for potentially sensitive operations.",
      recommendation |-> "Use secrets module for security-sensitive random values."],
     [pattern |-> 16, category |-> "auth", title |-> "SSL Certificate Verification Disabled",
      severity |-> "HIGH", cwe |-> "CWE-295", owasp |-> "A07:2021",
      description |-> "SSL certificate verification is disabled, enabling MITM attacks.",
      recommendation |-> "Always verify SSL certificates in production."],
     [pattern |-> 17, category |-> "auth", title |-> "Debug Mode Enabled",
      severity |-> "MEDIUM", cwe |-> "CWE-489", owasp |-> "A05:2021",
      description |-> "Debug mode should not be enabled in production.",
      recommendation |-> "Use environment-based configuration for debug settings."],
     [pattern |-> 18, category |-> "auth", title |-> "Django ALLOWED_HOSTS Wildcard",
      severity |-> "MEDIUM", cwe |-> "CWE-183", owasp |-> "A05:2021",
      description |-> "Wildcard ALLOWED_HOSTS enables host header attacks.",
      recommendation |-> "Specify explicit allowed hostnames."],
     [pattern |-> 19, category |-> "logging", title |-> "Password Logged to Console",
      severity |-> "HIGH", cwe |-> "CWE-532", owasp |-> "A09:2021",
      description |-> "Sensitive data may be logged to console output.",
      recommendation |-> "Never log passwords or sensitive data."],
     [pattern |-> 20, category |-> "logging", title |-> "Password in Log Statement",
      severity |-> "HIGH", cwe |-> "CWE-532", owasp |-> "A09:2021",
      description |-> "Sensitive data may be written to log files.",
      recommendation |-> "Sanitize sensitive data before logging."] >>

NoneValue == "None"

\* ------------------------------------------------------- generic helpers
Min(a, b) == IF a < b THEN a ELSE b
Max(a, b) == IF a > b THEN a ELSE b
Range(s) == {s[i] : i \in 1..Len(s)}
SeqsUpTo(S, n) == UNION {[1..k -> S] : k \in 0..n}

RECURSIVE Flatten(_)
Flatten(ss) == IF ss = <<>> THEN <<>> ELSE Head(ss) \o Flatten(Tail(ss))

\* f"NF-{n:04d}": the decimal digits of n, zero-padded to width 4.
RECURSIVE Digits(_)
Digits(n) == IF n < 10 THEN <<n>> ELSE Append(Digits(n \div 10), n % 10)

RECURSIVE ZeroPad(_, _)
ZeroPad(ds, w) == IF Len(ds) >= w THEN ds ELSE ZeroPad(<<0>> \o ds, w)

FormatId(n) == <<"NF-">> \o ZeroPad(Digits(n), 4)

\* ------------------------------------------------------------ line texts
\* The source lines the model draws file contents from.
T_pw2 == "password = 'a'; pwd = 'b'"
T_multi == "pwd = 'a'; eval(md5(x))"
T_pickle == "import os, pickle; assert ok"
T_try == "try: f()"
T_except == "except: pass"
T_deep == "x = 1+1+ ... +1  (20000 terms)"

T_plain == "total = count + 1"
T_exec == "exec(cmd)"

LineTexts == {T_pw2, T_multi, T_pickle, T_try, T_except, T_deep}

\* re: the number of non-overlapping matches of registry pattern p in text.
MatchCount(p, text) ==
  CASE p = 1 /\ text = T_pw2 -> 2
    [] p \in {1, 8, 13} /\ text = T_multi -> 1
    [] p = 9 /\ text = T_exec -> 1
    [] OTHER -> 0

\* regex.search(line) is truthy iff there is at least one match.
RegexSearch(p, text) == MatchCount(p, text) > 0

\* re.compile(pattern) raises re.error on BadPattern.
ReCompileRaises(p) == p = BadPattern

\* ast.parse(content): a try line needs an except line right after it, an
\* except line needs a try or except line right before it; the deep
\* expression parses but overflows the recursion limit while the tree is
\* built (RecursionError, which is not a SyntaxError).
SyntaxOk(lines) ==
  \A i \in 1..Len(lines) :
    /\ lines[i] = T_try => (i < Len(lines) /\ lines[i + 1] = T_except)
    /\ lines[i] = T_except => (i > 1 /\ lines[i - 1] \in {T_try, T_except})

AstParse(lines) ==
  IF ~SyntaxOk(lines) THEN "SyntaxError"
  ELSE IF \E i \in 1..Len(lines) : lines[i] = T_deep THEN "RecursionError"
  ELSE "ok"

\* ast.walk(tree), breadth first: the module's statements in source order,
\* then the handlers of the try statements.
RECURSIVE TopLevelNodes(_, _)
TopLevelNodes(lines, i) ==
  IF i > Len(lines) THEN <<>>
  ELSE (IF lines[i] = T_pickle
          THEN << [type |-> "Import", lineno |-> i, names |-> <<"os", "pickle">>, exc_type |-> NoneValue],
                  [type |-> "Assert", lineno |-> i, names |-> <<>>, exc_type |-> NoneValue] >>
          ELSE <<>>) \o TopLevelNodes(lines, i + 1)

RECURSIVE HandlerNodes(_, _)
HandlerNodes(lines, i) ==
  IF i > Len(lines) THEN <<>>
  ELSE (IF lines[i] = T_except
          THEN << [type |-> "ExceptHandler", lineno |-> i, names |-> <<>>, exc_type |-> NoneValue] >>
          ELSE <<>>) \o HandlerNodes(lines, i + 1)

AstWalk(lines) == TopLevelNodes(lines, 1) \o HandlerNodes(lines, 1)

\* ------------------------------------------------------- the file system
Extensions == {".py", ".js", ".ts", ".jsx", ".tsx", ".java", ".go", ".rb", ".php"}

ExcludedDirs ==
  {"node_modules", ".git", "__pycache__", "venv", ".venv", "target", "build", "dist", ".tox"}

\* The directory entries a project may hold, named by their path below the
\* project root.
EntryNames == {"a.py", "src/b.js", "node_modules/lib/c.js", "pkg.py", "notes.txt"}

Parts(e) ==
  CASE e = "a.py" -> <<"a.py">>
    [] e = "src/b.js" -> <<"src", "b.js">>
    [] e = "node_modules/lib/c.js" -> <<"node_modules", "lib", "c.js">>
    [] e = "pkg.py" -> <<"pkg.py">>
    [] e = "notes.txt" -> <<"notes.txt">>

\* Path.suffix of the entry's name.
Suffix(e) ==
  CASE e \in {"a.py", "pkg.py"} -> ".py"
    [] e \in {"src/b.js", "node_modules/lib/c.js"} -> ".js"
    [] e = "notes.txt" -> ".txt"

File(ls) == [kind |-> "file", lines |-> ls]
Directory == [kind |-> "dir", lines |-> <<>>]

\* Entries every modelled project holds besides its two source files: a
\* vendored script, a directory whose name ends in .py, a text file.
FixedEntries ==
  ("node_modules/lib/c.js" :> File(<<T_multi>>)) @@
  ("pkg.py" :> Directory) @@
  ("notes.txt" :> File(<<T_pw2>>))

EmptyTree == [e \in {} |-> Directory]

Absent == <<"absent">>

PyContents == SeqsUpTo(LineTexts, MaxLines)
JsContents == SeqsUpTo({T_multi}, MaxLines)

TreeOf(py, js) ==
  (IF py = Absent THEN EmptyTree ELSE ("a.py" :> File(py))) @@
  (IF js = Absent THEN EmptyTree ELSE ("src/b.js" :> File(js))) @@
  FixedEntries

\* A long src/b.js whose only line with matches is line L.
LongJs(L) == [i \in 1..LongLen |-> IF i = L THEN T_multi ELSE T_plain]

\* Every content of a.py beside a one-line src/b.js, every content of
\* src/b.js beside an absent or a full a.py, the long src/b.js alone, a
\* src/b.js with two HIGH rules on two lines, and an a.py whose findings
\* are all CRITICAL.
Trees ==
  {TreeOf(Absent, LongJs(L)) : L \in 1..LongLen} \cup
  {TreeOf(Absent, <<T_exec, T_multi>>), TreeOf(<<T_pw2>>, Absent)} \cup
  {TreeOf(py, <<T_multi>>) : py \in PyContents \cup {Absent}}
  \cup {TreeOf(py, js) : py \in {Absent, [i \in 1..MaxLines |-> T_multi]},
                         js \in JsContents \cup {Absent}}

\* ------------------------------------------------------------- manifests
MaxReqLines == 2     \* lines of requirements.txt

R_django == "Django==2.0"
R_yaml == "pyyaml==5.1  # pulled in by requests-mock"

\* Mutant of InLower: the line is not lowered before the test.
InLower_CaseSensitive(name, line) ==
  name \in {"pyyaml", "requests"} /\ line = R_yaml

\* name in line.lower()
InLower(name, line) ==
  \/ name = "django" /\ line = R_django
  \/ name \in {"pyyaml", "requests"} /\ line = R_yaml

vulnerable_packages ==
  << [pattern |-> "django<3.2", name |-> "django", title |-> "Django Security Update Required",
      severity |-> "HIGH", description |-> "Potentially vulnerable dependency: django<3.2"],
     [pattern |-> "flask<2.0", name |-> "flask", title |-> "Flask Security Update Recommended",
      severity |-> "MEDIUM", description |-> "Potentially vulnerable dependency: flask<2.0"],
     [pattern |-> "requests<2.20", name |-> "requests", title |-> "Requests CVE-2018-18074",
      severity |-> "HIGH", description |-> "Potentially vulnerable dependency: requests<2.20"],
     [pattern |-> "pyyaml<5.4", name |-> "pyyaml", title |-> "PyYAML Arbitrary Code Execution",
      severity |-> "CRITICAL", description |-> "Potentially vulnerable dependency: pyyaml<5.4"],
     [pattern |-> "urllib3<1.26.5", name |-> "urllib3", title |-> "urllib3 CVE-2021-33503",
      severity |-> "MEDIUM", description |-> "Potentially vulnerable dependency: urllib3<1.26.5"] >>

\* requirements.txt: absent, a text file, or a file whose bytes are not
\* valid UTF-8 (read_text() raises UnicodeDecodeError).
ReqFiles ==
  {[state |-> "absent", lines |-> <<>>], [state |-> "undecodable", lines |-> <<>>]}
  \cup {[state |-> "file", lines |-> ls] : ls \in SeqsUpTo({R_django, R_yaml}, MaxReqLines)}

\* package.json: absent, not JSON, or a JSON object with its two tables.
PkgFiles ==
  { [state |-> "absent", json |-> "none", dependencies |-> {}, devDependencies |-> {}],
    [state |-> "file", json |-> "malformed", dependencies |-> {}, devDependencies |-> {}],
    [state |-> "file", json |-> "object", dependencies |-> {"react"}, devDependencies |-> {}],
    [state |-> "file", json |-> "object", dependencies |-> {"react"}, devDependencies |-> {"lodash"}] }

NoManifests ==
  [req |-> [state |-> "absent", lines |-> <<>>],
   pkg |-> [state |-> "absent", json |-> "none", dependencies |-> {}, devDependencies |-> {}]]

\* -------------------------------------------------------------- findings
\* _generate_finding_id: advance the counter, format the new value.
GenerateFindingId(counter) ==
  [counter |-> counter + 1, id |-> FormatId(counter + 1)]

\* The context window of a textual finding, one <<number, text>> per line.
Snippet(lines, i) ==
  LET start == Max(0, i - 3)
      stop == Min(Len(lines), i + 2)
  IN [k \in 1..(stop - start) |-> <<start + k, lines[start + k]>>]

\* Finding(...) of the textual pass, lines 371-383.
TextualFinding(id, def, rel_path, lines, i) ==
  [id |-> id,
   title |-> def.title,
   severity |-> def.severity,
   category |-> def.category,
   file_path |-> rel_path,
   line_number |-> i,
   code_snippet |-> Snippet(lines, i),
   description |-> def.description,
   recommendation |-> def.recommendation,
   cwe_id |-> def.cwe,
   owasp_category |-> def.owasp]

\* Mutant of ScanLines: one finding per match (finditer) instead of one
\* per matching line.
RECURSIVE ScanLines_PerMatch(_, _, _, _, _)
ScanLines_PerMatch(def, rel_path, lines, i, counter) ==
  IF i > Len(lines) THEN [findings |-> <<>>, counter |-> counter]
  ELSE
    LET n == MatchCount(def.pattern, lines[i])
        rest == ScanLines_PerMatch(def, rel_path, lines, i + 1, counter + n)
    IN [findings |->
          [m \in 1..n |-> TextualFinding(FormatId(counter + m), def, rel_path, lines, i)]
          \o rest.findings,
        counter |-> rest.counter]

\* for i, line in enumerate(lines, 1): one Finding when the line matches.
RECURSIVE ScanLines(_, _, _, _, _)
ScanLines(def, rel_path, lines, i, counter) ==
  IF i > Len(lines) THEN [findings |-> <<>>, counter |-> counter]
  ELSE IF RegexSearch(def.pattern, lines[i])
    THEN LET g == GenerateFindingId(counter)
             rest == ScanLines(def, rel_path, lines, i + 1, g.counter)
         IN [findings |-> <<TextualFinding(g.id, def, rel_path, lines, i)>> \o rest.findings,
             counter |-> rest.counter]
    ELSE ScanLines(def, rel_path, lines, i + 1, counter)

\* Every rule applied to line i, in registry order.
RECURSIVE RulesOnLine(_, _, _, _, _, _)
RulesOnLine(pats, rel_path, lines, i, r, counter) ==
  IF r > Len(pats) THEN [findings |-> <<>>, counter |-> counter]
  ELSE IF RegexSearch(pats[r].pattern, lines[i])
    THEN LET g == GenerateFindingId(counter)
             rest == RulesOnLine(pats, rel_path, lines, i, r + 1, g.counter)
         IN [findings |-> <<TextualFinding(g.id, pats[r], rel_path, lines, i)>>
                            \o rest.findings,
             counter |-> rest.counter]
    ELSE RulesOnLine(pats, rel_path, lines, i, r + 1, counter)

\* Mutant of PatternScan: the loops are nested the other way round, line
\* by line and every rule on each line (k counts the lines).
RECURSIVE PatternScan_LineByLine(_, _, _, _, _)
PatternScan_LineByLine(pats, rel_path, lines, k, counter) ==
  IF k > Len(lines) THEN [findings |-> <<>>, counter |-> counter, raised |-> FALSE]
  ELSE LET here == RulesOnLine(pats, rel_path, lines, k, 1, counter)
           rest == PatternScan_LineByLine(pats, rel_path, lines, k + 1, here.counter)
       IN [findings |-> here.findings \o rest.findings,
           counter |-> rest.counter,
           raised |-> FALSE]

\* for category, patterns ... for pattern_def ...: compile, then scan the
\* lines.  A pattern that does not compile raises out of scan_file; the
\* findings built so far stay in the local list and their ids are spent.
RECURSIVE PatternScan(_, _, _, _, _)
PatternScan(pats, rel_path, lines, k, counter) ==
  IF k > Len(pats) THEN [findings |-> <<>>, counter |-> counter, raised |-> FALSE]
  ELSE IF ReCompileRaises(pats[k].pattern)
    THEN [findings |-> <<>>, counter |-> counter, raised |-> TRUE]
    ELSE LET here == ScanLines(pats[k], rel_path, lines, 1, counter)
             rest == PatternScan(pats, rel_path, lines, k + 1, here.counter)
         IN [findings |-> here.findings \o rest.findings,
             counter |-> rest.counter,
             raised |-> rest.raised]

\* Mutant of AstFinding: the structural findings get a category of their
\* own making.
AstFinding_OwnCategory(id, rel_path, lineno, title, severity, category, snippet, description, recommendation, cwe, owasp) ==
  [id |-> id, title |-> title, severity |-> severity, category |-> "ast",
   file_path |-> rel_path, line_number |-> lineno,
   code_snippet |-> << <<lineno, snippet>> >>,
   description |-> description, recommendation |-> recommendation,
   cwe_id |-> cwe, owasp_category |-> owasp]

\* Finding(...) of the AST pass, lines 403-447.
AstFinding(id, rel_path, lineno, title, severity, category, snippet, description, recommendation, cwe, owasp) ==
  [id |-> id, title |-> title, severity |-> severity, category |-> category,
   file_path |-> rel_path, line_number |-> lineno,
   code_snippet |-> << <<lineno, snippet>> >>,
   description |-> description, recommendation |-> recommendation,
   cwe_id |-> cwe, owasp_category |-> owasp]

\* for alias in node.names: if alias.name == "pickle"
RECURSIVE ImportAliases(_, _, _, _, _)
ImportAliases(names, k, rel_path, lineno, counter) ==
  IF k > Len(names) THEN [findings |-> <<>>, counter |-> counter]
  ELSE IF names[k] = "pickle"
    THEN LET g == GenerateFindingId(counter)
             rest == ImportAliases(names, k + 1, rel_path, lineno, g.counter)
         IN [findings |->
               << AstFinding(g.id, rel_path, lineno, "Pickle Deserialization Risk", "MEDIUM",
                             "injection", "import pickle",
                             "Pickle can execute arbitrary code during deserialization.",
                             "Use JSON or other safe serialization formats for untrusted data.",
                             "CWE-502", "A08:2021") >> \o rest.findings,
             counter |-> rest.counter]
    ELSE ImportAliases(names, k + 1, rel_path, lineno, counter)

\* for node in ast.walk(tree): the three structural checks, in this order.
RECURSIVE WalkNodes(_, _, _, _)
WalkNodes(nodes, k, rel_path, counter) ==
  IF k > Len(nodes) THEN [findings |-> <<>>, counter |-> counter]
  ELSE
    LET node == nodes[k]
        g1 == GenerateFindingId(counter)
        a == IF node.type = "Assert"
               THEN [findings |->
                       << AstFinding(g1.id, rel_path, node.lineno, "Security Assert Statement", "LOW",
                                     "code_quality", "assert ...",
                                     "Assert statements are removed when Python runs with -O flag.",
                                     "Use explicit if/raise for security checks.",
                                     "CWE-617", NoneValue) >>,
                     counter |-> g1.counter]
               ELSE [findings |-> <<>>, counter |-> counter]
        g2 == GenerateFindingId(a.counter)
        b == IF node.type = "ExceptHandler" /\ node.exc_type = NoneValue
               THEN [findings |->
                       << AstFinding(g2.id, rel_path, node.lineno, "Bare Except Clause", "LOW",
                                     "code_quality", "except:",
                                     "Bare except catches all exceptions including KeyboardInterrupt.",
                                     "Catch specific exceptions: except Exception:",
                                     "CWE-396", NoneValue) >>,
                     counter |-> g2.counter]
               ELSE [findings |-> <<>>, counter |-> a.counter]
        c == IF node.type = "Import"
               THEN ImportAliases(node.names, 1, rel_path, node.lineno, b.counter)
               ELSE [findings |-> <<>>, counter |-> b.counter]
        rest == WalkNodes(nodes, k + 1, rel_path, c.counter)
    IN [findings |-> a.findings \o b.findings \o c.findings \o rest.findings,
        counter |-> rest.counter]

\* _analyze_python_ast: only SyntaxError is caught; any other exception of
\* ast.parse leaves the method.
AnalyzePythonAst(lines, rel_path, counter) ==
  LET outcome == AstParse(lines)
  IN IF outcome = "SyntaxError"
       THEN [findings |-> <<>>, counter |-> counter, raised |-> FALSE]
     ELSE IF outcome # "ok"
       THEN [findings |-> <<>>, counter |-> counter, raised |-> TRUE]
     ELSE LET w == WalkNodes(AstWalk(lines), 1, rel_path, counter)
          IN [findings |-> w.findings, counter |-> w.counter, raised |-> FALSE]

\* ----------------------------------------------------------------- state
VARIABLES
  root,             \* the project path given on the command line
  tree,             \* directory entries below the root and their contents
  manifests,        \* requirements.txt and package.json at the root
  patterns,         \* SecurityAuditor.patterns
  findings,         \* SecurityAuditor.findings (the report shares this list)
  finding_counter,  \* SecurityAuditor.finding_counter
  files_scanned,    \* scan(): local counter
  lines_scanned,    \* scan(): local counter
  extsLeft,         \* scan(): extensions the outer loop has not reached
  pending,          \* scan(): entries the current rglob has not yielded
  calls,            \* entries handed to scan_file so far in this scan
  last,             \* the most recent scan_file call and its textual findings
  report,           \* the AuditReport scan() returned, or NoReport
  pc,               \* position of main()
  exit_code,        \* process exit status, NoExit while running
  run,              \* number of the current invocation
  outputs,          \* to_dict() of the reports of finished invocations
  seen,             \* the findings each scan() of this auditor returned, as returned
  argv,             \* the flags of the command line, NoArgs until main() uses them
  stdout,           \* what the process has printed
  written,          \* the file main() wrote, or NoFile
  state,            \* the WorkflowState dict of the aol_fire workflow
  node,             \* the node of the workflow graph that runs next
  trace,            \* the nodes that have run, in order
  result,           \* what CoderAgent.execute_task returned last
  route,            \* what a direct call of should_continue returned
  plan              \* a Plan object in the hands of a library caller

vars ==
  <<root, tree, manifests, patterns, findings, finding_counter, files_scanned,
    lines_scanned, extsLeft, pending, calls, last, report, pc, exit_code, run, outputs,
    seen, argv, stdout, written, state, node, trace, result, route, plan>>

inputs == <<root, tree, manifests, patterns>>

io == <<argv, stdout, written>>

\* The variables of the security auditor and those of the aol_fire package.
auditor ==
  <<root, tree, manifests, patterns, findings, finding_counter, files_scanned,
    lines_scanned, extsLeft, pending, calls, last, report, pc, exit_code, run, outputs,
    seen, argv, stdout, written>>

fire == <<state, node, trace, result, route, plan>>

NoReport == [returned |-> FALSE, project_path |-> "", files_scanned |-> 0, lines_scanned |-> 0]
NoExit == -1
NoCall == [entry |-> "", textual |-> <<>>, raised |-> FALSE]
NoArgs == [json |-> FALSE, output |-> "unread"]
NoFile == [exists |-> FALSE, doc |-> <<>>]

\* main(), lines 709-711: the two banner lines, printed before the scan.
Banner == [kind |-> "banner", doc |-> <<>>]

\* ---------------------------------------------------------------- inputs
NormalRoot == [path |-> "/home/dev/app", parts |-> <<"/", "home", "dev", "app">>, kind |-> "dir"]
BuildRoot == [path |-> "/srv/build/app", parts |-> <<"/", "srv", "build", "app">>, kind |-> "dir"]
MissingRoot == [path |-> "/nonexistent", parts |-> <<"/", "nonexistent">>, kind |-> "missing"]
FileRoot == [path |-> "/home/dev/notes.txt", parts |-> <<"/", "home", "dev", "notes.txt">>, kind |-> "file"]

SampleTrees == {TreeOf(<<T_multi, T_pickle>>, <<T_multi>>), TreeOf(Absent, Absent)}

\* The projects the model scans: every source tree without manifests,
\* every manifest combination over two sample trees, a project below a
\* directory named build, and two paths that are not directories.
Projects ==
  {[root |-> NormalRoot, tree |-> t, manifests |-> NoManifests] : t \in Trees}
  \cup {[root |-> NormalRoot, tree |-> t, manifests |-> [req |-> r, pkg |-> p]] :
          t \in SampleTrees, r \in ReqFiles, p \in PkgFiles}
  \cup {[root |-> BuildRoot, tree |-> t, manifests |-> NoManifests] : t \in SampleTrees}
  \cup {[root |-> r, tree |-> EmptyTree, manifests |-> NoManifests] : r \in {MissingRoot, FileRoot}}

\* ------------------------------------------------------------ scan steps
\* self.project_path.rglob(f"*{ext}"): every entry below the root whose
\* name ends in ext, files and directories alike; nothing when the root is
\* not a directory.
Rglob(ext) ==
  IF root.kind # "dir" THEN {} ELSE {e \in DOMAIN tree : Suffix(e) = ext}

\* any(part in file_path.parts for part in [...])
IsExcluded(e) ==
  \E part \in ExcludedDirs : part \in Range(root.parts \o Parts(e))

\* file_path.read_text(errors='ignore') raises on a directory.
ReadRaises(e) == tree[e].kind # "file"

\* scan_file(file_path): the textual pass, then the AST pass for .py.
scan_file(e, counter) ==
  IF ReadRaises(e)
    THEN [findings |-> <<>>, counter |-> counter, raised |-> FALSE, textual |-> <<>>]
  ELSE
    LET lines == tree[e].lines
        t == PatternScan(patterns, e, lines, 1, counter)
    IN IF t.raised
         THEN [findings |-> <<>>, counter |-> t.counter, raised |-> TRUE, textual |-> t.findings]
       ELSE IF Suffix(e) = ".py"
         THEN LET a == AnalyzePythonAst(lines, e, t.counter)
              IN IF a.raised
                   THEN [findings |-> <<>>, counter |-> a.counter, raised |-> TRUE,
                         textual |-> t.findings]
                   ELSE [findings |-> t.findings \o a.findings, counter |-> a.counter,
                         raised |-> FALSE, textual |-> t.findings]
       ELSE [findings |-> t.findings, counter |-> t.counter, raised |-> FALSE,
             textual |-> t.findings]

\* Mutant of ReqScan: one finding for each line that names the package.
RECURSIVE ReqScan_PerLine(_, _, _)
ReqScan_PerLine(lines, k, counter) ==
  IF k > Len(vulnerable_packages) THEN [findings |-> <<>>, counter |-> counter]
  ELSE
    LET v == vulnerable_packages[k]
        hits == Cardinality({i \in 1..Len(lines) : InLower(v.name, lines[i])})
        rest == ReqScan_PerLine(lines, k + 1, counter + hits)
    IN [findings |->
          [n \in 1..hits |->
             [id |-> FormatId(counter + n), title |-> v.title, severity |-> v.severity,
              category |-> "dependencies", file_path |-> "requirements.txt",
              line_number |-> 1,
              code_snippet |-> << <<0, "Check requirements.txt">> >>,
              description |-> v.description,
              recommendation |-> "Update to the latest secure version.",
              cwe_id |-> "CWE-1104", owasp_category |-> "A06:2021"]]
          \o rest.findings,
        counter |-> rest.counter]

\* for vuln_pattern, (title, severity) in vulnerable_packages.items():
\*   if any(name in line.lower() for line in content.splitlines())
RECURSIVE ReqScan(_, _, _)
ReqScan(lines, k, counter) ==
  IF k > Len(vulnerable_packages) THEN [findings |-> <<>>, counter |-> counter]
  ELSE
    LET v == vulnerable_packages[k]
    IN IF \E i \in 1..Len(lines) : InLower(v.name, lines[i])
         THEN LET g == GenerateFindingId(counter)
                  rest == ReqScan(lines, k + 1, g.counter)
              IN [findings |->
                    << [id |-> g.id, title |-> v.title, severity |-> v.severity,
                        category |-> "dependencies", file_path |-> "requirements.txt",
                        line_number |-> 1,
                        code_snippet |-> << <<0, "Check requirements.txt">> >>,
                        description |-> v.description,
                        recommendation |-> "Update to the latest secure version.",
                        cwe_id |-> "CWE-1104", owasp_category |-> "A06:2021"] >>
                    \o rest.findings,
                  counter |-> rest.counter]
         ELSE ReqScan(lines, k + 1, counter)

\* The package.json block: every exception inside it is swallowed.
PkgScan(pkg, counter) ==
  IF pkg.state = "file" /\ pkg.json = "object"
     /\ "lodash" \in (pkg.dependencies \cup pkg.devDependencies)
    THEN LET g == GenerateFindingId(counter)
         IN [findings |->
               << [id |-> g.id, title |-> "Check Lodash Version", severity |-> "INFO",
                   category |-> "dependencies", file_path |-> "package.json",
                   line_number |-> 1,
                   code_snippet |-> << <<0, "lodash in dependencies">> >>,
                   description |-> "Lodash has had multiple CVEs. Ensure version is current.",
                   recommendation |-> "Run 'npm audit' for detailed vulnerability check.",
                   cwe_id |-> NoneValue, owasp_category |-> NoneValue] >>,
             counter |-> g.counter]
    ELSE [findings |-> <<>>, counter |-> counter]

\* Mutant of scan_dependencies: the dependency scanner numbers its findings
\* from a counter of its own.
scan_dependencies_OwnCounter(counter) ==
  LET req == manifests.req
  IN IF req.state = "undecodable"
       THEN [findings |-> <<>>, counter |-> counter, raised |-> TRUE]
     ELSE
       LET r == IF req.state = "file" THEN ReqScan(req.lines, 1, 0)
                ELSE [findings |-> <<>>, counter |-> 0]
           p == PkgScan(manifests.pkg, r.counter)
       IN [findings |-> r.findings \o p.findings, counter |-> counter, raised |-> FALSE]

\* scan_dependencies: req_file.read_text() is outside any try block.
scan_dependencies(counter) ==
  LET req == manifests.req
  IN IF req.state = "undecodable"
       THEN [findings |-> <<>>, counter |-> counter, raised |-> TRUE]
     ELSE
       LET r == IF req.state = "file" THEN ReqScan(req.lines, 1, counter)
                ELSE [findings |-> <<>>, counter |-> counter]
           p == PkgScan(manifests.pkg, r.counter)
       IN [findings |-> r.findings \o p.findings, counter |-> p.counter, raised |-> FALSE]

RECURSIVE Reverse(_)
Reverse(q) == IF q = <<>> THEN <<>> ELSE Append(Reverse(Tail(q)), Head(q))

\* Mutant of SortBySeverity: a sort that is not stable (equal keys come out
\* in reverse).
SortBySeverity_Unstable(fs) ==
  Flatten([r \in 1..5 |->
             Reverse(SelectSeq(fs, LAMBDA f : severity_order(f.severity) = r - 1))])

\* Mutant of SortBySeverity: a sort that numbers the findings anew in their
\* sorted order.
SortBySeverity_Renumber(fs) ==
  LET sorted == Flatten([r \in 1..5 |->
                           SelectSeq(fs, LAMBDA f : severity_order(f.severity) = r - 1)])
  IN [n \in 1..Len(sorted) |-> [sorted[n] EXCEPT !.id = FormatId(n)]]

\* self.findings.sort(key=lambda f: severity_order[f.severity]): list.sort
\* is stable, so the result is the rank-0 findings in their present order,
\* then the rank-1 findings, and so on.
SortBySeverity(fs) ==
  Flatten([r \in 1..5 |-> SelectSeq(fs, LAMBDA f : severity_order(f.severity) = r - 1)])

\* ---------------------------------------------------------- AuditReport
CountOf(fs, sev) == Len(SelectSeq(fs, LAMBDA f : f.severity = sev))

critical_count(fs) == CountOf(fs, "CRITICAL")
high_count(fs) == CountOf(fs, "HIGH")

RECURSIVE SumWeights(_)
SumWeights(fs) == IF fs = <<>> THEN 0 ELSE weights(Head(fs).severity) + SumWeights(Tail(fs))

\* Mutant of risk_score: the clamp is missing.
risk_score_NoClamp(fs) == IF fs = <<>> THEN 0 ELSE SumWeights(fs)

risk_score(fs) == IF fs = <<>> THEN 0 ELSE Min(100, SumWeights(fs))

FindingToDict(f) ==
  [id |-> f.id, title |-> f.title, severity |-> f.severity, category |-> f.category,
   location |-> [file |-> f.file_path, line |-> f.line_number],
   code_snippet |-> f.code_snippet, description |-> f.description,
   recommendation |-> f.recommendation,
   references |-> [cwe |-> f.cwe_id, owasp |-> f.owasp_category]]

\* Mutant of to_dict: the "low" count is taken over the MEDIUM findings.
to_dict_LowCountsMedium(rep, fs) ==
  [meta |-> [project |-> rep.project_path, files_scanned |-> rep.files_scanned,
             lines_scanned |-> rep.lines_scanned],
   summary |-> [total_findings |-> Len(fs), critical |-> critical_count(fs),
                high |-> high_count(fs), medium |-> CountOf(fs, "MEDIUM"),
                low |-> CountOf(fs, "MEDIUM"), info |-> CountOf(fs, "INFO"),
                risk_score |-> risk_score(fs)],
   findings |-> [i \in 1..Len(fs) |-> FindingToDict(fs[i])]]

\* AuditReport.to_dict without meta.scan_time and meta.duration_ms (the
\* model has no clock).  rep.findings is the auditor's own list.
to_dict(rep, fs) ==
  [meta |-> [project |-> rep.project_path, files_scanned |-> rep.files_scanned,
             lines_scanned |-> rep.lines_scanned],
   summary |-> [total_findings |-> Len(fs), critical |-> critical_count(fs),
                high |-> high_count(fs), medium |-> CountOf(fs, "MEDIUM"),
                low |-> CountOf(fs, "LOW"), info |-> CountOf(fs, "INFO"),
                risk_score |-> risk_score(fs)],
   findings |-> [i \in 1..Len(fs) |-> FindingToDict(fs[i])]]

\* Mutant of ExitCode: the HIGH test comes first.
ExitCode_HighFirst(fs) ==
  IF high_count(fs) > 0 THEN 1
  ELSE IF critical_count(fs) > 0 THEN 2
  ELSE 0

\* main(): the exit status chosen from the report.
ExitCode(fs) ==
  IF critical_count(fs) > 0 THEN 2
  ELSE IF high_count(fs) > 0 THEN 1
  ELSE 0

\* ------------------------------------------------------------- rendering
\* generate_report_markdown, lines 619-658: a severity heading whenever the
\* severity changes, then one subsection per finding, in list order.
MdHeading(sev) ==
  [kind |-> "heading", severity |-> sev, id |-> <<>>, title |-> "", file |-> "", line |-> 0,
   category |-> "", cwe |-> NoneValue, owasp |-> NoneValue, description |-> "",
   code_snippet |-> <<>>, recommendation |-> ""]

MdFinding(f) ==
  [kind |-> "finding", severity |-> f.severity, id |-> f.id, title |-> f.title,
   file |-> f.file_path, line |-> f.line_number, category |-> f.category,
   cwe |-> f.cwe_id, owasp |-> f.owasp_category, description |-> f.description,
   code_snippet |-> f.code_snippet, recommendation |-> f.recommendation]

\* Mutant of MdSections: findings of severity INFO get no subsection.
RECURSIVE MdSections_SkipInfo(_, _, _)
MdSections_SkipInfo(fs, k, current_severity) ==
  IF k > Len(fs) THEN <<>>
  ELSE IF fs[k].severity = "INFO" THEN MdSections_SkipInfo(fs, k + 1, current_severity)
  ELSE (IF fs[k].severity # current_severity THEN <<MdHeading(fs[k].severity)>> ELSE <<>>)
       \o <<MdFinding(fs[k])>> \o MdSections_SkipInfo(fs, k + 1, fs[k].severity)

RECURSIVE MdSections(_, _, _)
MdSections(fs, k, current_severity) ==
  IF k > Len(fs) THEN <<>>
  ELSE (IF fs[k].severity # current_severity THEN <<MdHeading(fs[k].severity)>> ELSE <<>>)
       \o <<MdFinding(fs[k])>> \o MdSections(fs, k + 1, fs[k].severity)

\* Lines 568-584: the risk level shown beside the score.
RiskLevel(risk) ==
  IF risk >= 75 THEN "CRITICAL"
  ELSE IF risk >= 50 THEN "HIGH"
  ELSE IF risk >= 25 THEN "MEDIUM"
  ELSE IF risk > 0 THEN "LOW"
  ELSE "CLEAN"

\* Lines 660-667: the three rows of the compliance table.
ComplianceSummary(fs) ==
  [owasp |-> IF fs # <<>> THEN "Issues Found" ELSE "Compliant",
   cwe |-> IF critical_count(fs) > 0 THEN "Review Required" ELSE "No Critical Issues",
   pci |-> IF high_count(fs) > 0 THEN "Action Required" ELSE "Passing"]

generate_report_markdown(rep, fs) ==
  [project |-> rep.project_path,
   risk |-> risk_score(fs),
   risk_level |-> RiskLevel(risk_score(fs)),
   files_scanned |-> rep.files_scanned,
   lines_scanned |-> rep.lines_scanned,
   total_findings |-> Len(fs),
   by_severity |-> [critical |-> critical_count(fs), high |-> high_count(fs),
                    medium |-> CountOf(fs, "MEDIUM"), low |-> CountOf(fs, "LOW"),
                    info |-> CountOf(fs, "INFO")],
   no_issues |-> fs = <<>>,
   sections |-> MdSections(fs, 1, NoneValue),
   compliance |-> ComplianceSummary(fs)]

\* The command lines: --json given or not; --output absent, followed by a
\* path, or given as the last word (then output_file stays None).
ArgvFlags == [json : BOOLEAN, output : {"absent", "path", "no_value"}]

\* Mutant of Render: the --output test comes before the --json test.
Render_OutputFirst(a, rep, fs) ==
  IF a.output = "path"
    THEN [printed |-> <<[kind |-> "saved", doc |-> <<>>]>>,
          written |-> [exists |-> TRUE, doc |-> generate_report_markdown(rep, fs)]]
  ELSE IF a.json
    THEN [printed |-> <<[kind |-> "json", doc |-> to_dict(rep, fs)]>>, written |-> NoFile]
  ELSE [printed |-> <<[kind |-> "markdown", doc |-> generate_report_markdown(rep, fs)]>>,
        written |-> NoFile]

\* main(), lines 716-725: what is printed and what is written.
Render(a, rep, fs) ==
  IF a.json
    THEN [printed |-> <<[kind |-> "json", doc |-> to_dict(rep, fs)]>>, written |-> NoFile]
  ELSE IF a.output = "path"
    THEN [printed |-> <<[kind |-> "saved", doc |-> <<>>]>>,
          written |-> [exists |-> TRUE, doc |-> generate_report_markdown(rep, fs)]]
  ELSE [printed |-> <<[kind |-> "markdown", doc |-> generate_report_markdown(rep, fs)]>>,
        written |-> NoFile]

\* ============================================================== aol_fire
\* models.py, workflow.py and agents/coder.py of src/aol_fire.

MaxTasks == 3        \* tasks of a plan
MaxIterations == 4   \* FireConfig.max_iterations of a modelled run
MaxRounds == 16      \* tool-calling answers the model gives before a final one
MaxRouterTasks == 2  \* tasks of a plan handed to should_continue directly

\* TaskStatus, models.py lines 26-34.
TaskStatus ==
  {"pending", "queued", "in_progress", "blocked", "completed", "failed", "cancelled"}

\* Task(title=...): a new task is PENDING with no output and no error.
Task(title) == [title |-> title, status |-> "pending", output |-> NoneValue, error |-> NoneValue]

\* Task.start, Task.complete, Task.fail: no guard on the present status.
start(t) == [t EXCEPT !.status = "in_progress"]
complete(t, output) == [t EXCEPT !.status = "completed", !.output = output]
fail(t, error) == [t EXCEPT !.status = "failed", !.error = error]

\* Plan(goal=...) and the absent plan (state["plan"] is None).
Plan == [exists |-> TRUE, tasks |-> <<>>, status |-> "pending"]
NoPlan == [exists |-> FALSE, tasks |-> <<>>, status |-> "pending"]

\* Plan.add_task: the new task goes to the end of the list.
add_task(p, title) == [p EXCEPT !.tasks = Append(@, Task(title))]

\* The title of the n-th task a caller adds.
Title(n) == <<"Task", n>>

\* The positions of the tasks of p that are PENDING, in plan order.
PendingPositions(p) == {i \in 1..Len(p.tasks) : p.tasks[i].status = "pending"}

\* Mutant of pending_tasks: tasks in progress count as pending too.
pending_tasks_WithInProgress(p) ==
  SelectSeq(p.tasks, LAMBDA t : t.status \in {"pending", "in_progress"})

\* Plan.pending_tasks, completed_tasks, failed_tasks.
pending_tasks(p) == SelectSeq(p.tasks, LAMBDA t : t.status = "pending")
completed_tasks(p) == SelectSeq(p.tasks, LAMBDA t : t.status = "completed")
failed_tasks(p) == SelectSeq(p.tasks, LAMBDA t : t.status = "failed")

\* Plan.current_task, as the position of the first PENDING task; 0 is None.
current_task(p) ==
  IF PendingPositions(p) = {} THEN 0
  ELSE CHOOSE i \in PendingPositions(p) : \A j \in PendingPositions(p) : i <= j

\* Plan.is_complete: all() over the tasks, true for a plan without tasks.
is_complete(p) ==
  \A i \in 1..Len(p.tasks) : p.tasks[i].status \in {"completed", "failed", "cancelled"}

\* ------------------------------------------------------------ CoderAgent
\* max_iterations = 15, coder.py line 92.
coder_max_iterations == 15

\* result = {...}, coder.py lines 84-90; calls counts self.llm.invoke.
NoResult ==
  [success |-> FALSE, output |-> "", tool_calls |-> 0, file_changes |-> 0,
   error |-> NoneValue, calls |-> 0]

\* Lines 154-157: the test after the loop.
AfterLoop(iteration, res) ==
  IF iteration >= coder_max_iterations
    THEN [res EXCEPT !.error = "Max iterations reached"]
    ELSE res

\* The while loop of execute_task, lines 95-152.  The model answers with
\* tool calls script.rounds times and then without; the tool of the first
\* round is write_file when script.writes.
RECURSIVE CoderLoop(_, _, _)
CoderLoop(iteration, script, res) ==
  IF iteration < coder_max_iterations
    THEN LET it == iteration + 1
             called == [res EXCEPT !.calls = @ + 1]
         IN IF it <= script.rounds
              THEN CoderLoop(it, script,
                             [called EXCEPT !.tool_calls = @ + 1,
                                            !.file_changes =
                                              IF it = 1 /\ script.writes THEN @ + 1 ELSE @])
              ELSE [iteration |-> it,
                    res |-> [called EXCEPT !.success = TRUE, !.output = "response.content"]]
    ELSE [iteration |-> iteration, res |-> res]

\* CoderAgent.execute_task.
execute_task(script) ==
  LET l == CoderLoop(0, script, NoResult)
  IN AfterLoop(l.iteration, l.res)

\* How the model may behave during one task.
Scripts == [rounds : 0..MaxRounds, writes : BOOLEAN]

\* -------------------------------------------------------------- workflow
\* create_initial_state, workflow.py lines 353-372.
create_initial_state(config) ==
  [plan |-> NoPlan, file_changes |-> 0, iteration |-> 0,
   max_iterations |-> config.max_iterations,
   config |-> [enable_code_review |-> config.enable_code_review],
   error |-> NoneValue, final_output |-> NoneValue, review_notes |-> NoneValue]

\* FireConfig, core.py lines 49 and 54.
Configs == [max_iterations : 1..MaxIterations, enable_code_review : BOOLEAN]

\* PlannerAgent.create_plan: a plan of n PENDING tasks, n >= 1 (an empty
\* answer gets the default task, planner.py lines 115-120).
RECURSIVE create_plan(_)
create_plan(n) == IF n = 0 THEN Plan ELSE add_task(create_plan(n - 1), Title(n))

\* Mutant of should_continue: a finished plan ends the run at once.
should_continue_EndWhenDone(s) ==
  IF s.error # NoneValue THEN "reporter"
  ELSE IF s.iteration >= s.max_iterations THEN "reporter"
  ELSE IF ~s.plan.exists THEN "end"
  ELSE IF current_task(s.plan) # 0 THEN "executor"
  ELSE "end"

\* Mutant of should_continue: the plan is looked at before the iteration
\* limit.
should_continue_PlanFirst(s) ==
  IF s.error # NoneValue THEN "reporter"
  ELSE IF ~s.plan.exists THEN "end"
  ELSE IF current_task(s.plan) # 0 THEN "executor"
  ELSE IF s.iteration >= s.max_iterations THEN "reporter"
  ELSE IF is_complete(s.plan)
    THEN IF s.config.enable_code_review /\ s.review_notes = NoneValue
           THEN "reviewer" ELSE "reporter"
  ELSE "reporter"

\* should_continue, workflow.py lines 250-277.
should_continue(s) ==
  IF s.error # NoneValue THEN "reporter"
  ELSE IF s.iteration >= s.max_iterations THEN "reporter"
  ELSE IF ~s.plan.exists THEN "end"
  ELSE IF current_task(s.plan) # 0 THEN "executor"
  ELSE IF is_complete(s.plan)
    THEN IF s.config.enable_code_review /\ s.review_notes = NoneValue
           THEN "reviewer" ELSE "reporter"
  ELSE "reporter"

\* after_planning, workflow.py lines 280-287.
after_planning(s) ==
  IF ~s.plan.exists \/ s.plan.tasks = <<>> THEN "reporter" ELSE "executor"

\* The conditional edges of build_fire_graph, lines 327-345.
Edge(r) == IF r = "end" THEN "END" ELSE r

\* planner_node, lines 55-86.
planner_node(s, n) ==
  [s EXCEPT !.plan = [create_plan(n) EXCEPT !.status = "executing"],
            !.iteration = @ + 1]

\* Mutant of executor_node: the task is not marked, so it stays PENDING.
executor_node_NoUpdate(s, script) ==
  IF ~s.plan.exists THEN [s EXCEPT !.error = "No plan to execute"]
  ELSE IF current_task(s.plan) = 0 THEN [s EXCEPT !.plan.status = "completed"]
  ELSE LET r == execute_task(script)
       IN [s EXCEPT !.file_changes = @ + r.file_changes, !.iteration = @ + 1]

\* executor_node, lines 96-153.
executor_node(s, script) ==
  IF ~s.plan.exists THEN [s EXCEPT !.error = "No plan to execute"]
  ELSE LET current == current_task(s.plan)
       IN IF current = 0 THEN [s EXCEPT !.plan.status = "completed"]
          ELSE LET started == start(s.plan.tasks[current])
                   r == execute_task(script)
                   done == IF r.success THEN complete(started, r.output)
                           ELSE fail(started, r.error)
               IN [s EXCEPT !.plan.tasks[current] = done,
                            !.file_changes = @ + r.file_changes,
                            !.iteration = @ + 1]

\* reviewer_node, lines 161-190.
reviewer_node(s) ==
  IF ~s.plan.exists \/ ~s.config.enable_code_review \/ s.file_changes = 0 THEN s
  ELSE [s EXCEPT !.review_notes = "response.content"]

\* reporter_node, lines 198-241.
reporter_node(s) == [s EXCEPT !.final_output = "# Execution Summary"]

NoRoute == ""

\* The aol_fire variables while the auditor is modelled.
FireIdle ==
  /\ state = create_initial_state([max_iterations |-> 1, enable_code_review |-> FALSE])
  /\ node = "idle"
  /\ trace = <<>>
  /\ result = NoResult
  /\ route = NoRoute
  /\ plan = NoPlan

\* --------------------------------------------------------------- actions
Fresh ==
  /\ findings = <<>>
  /\ finding_counter = 0
  /\ files_scanned = 0
  /\ lines_scanned = 0
  /\ extsLeft = Extensions
  /\ pending = {}
  /\ calls = <<>>
  /\ last = NoCall
  /\ report = NoReport
  /\ pc = "constructed"
  /\ exit_code = NoExit
  /\ seen = <<>>
  /\ argv = NoArgs
  /\ stdout = <<Banner>>
  /\ written = NoFile

\* main() has built SecurityAuditor(project_path) with the shipped registry.
Init ==
  /\ \E p \in Projects : root = p.root /\ tree = p.tree /\ manifests = p.manifests
  /\ patterns = LoadSecurityPatterns
  /\ Fresh
  /\ run = 1
  /\ outputs = <<>>
  /\ FireIdle

\* scan(), lines 513-518: the locals before the loop.
ScanStart ==
  /\ pc = "constructed"
  /\ pc' = "walk"
  /\ files_scanned' = 0
  /\ lines_scanned' = 0
  /\ extsLeft' = Extensions
  /\ pending' = {}
  /\ calls' = <<>>
  /\ UNCHANGED <<inputs, findings, finding_counter, last, report, exit_code, run, outputs,
                 seen, io, fire>>

\* for ext in extensions: the set is iterated in whatever order its hash
\* table gives; an extension no entry carries is an empty iteration.
NextExt(ext) ==
  /\ pc = "walk"
  /\ pending = {}
  /\ ext \in extsLeft
  /\ Rglob(ext) # {}
  /\ pending' = Rglob(ext)
  /\ extsLeft' = extsLeft \ {ext}
  /\ UNCHANGED <<inputs, findings, finding_counter, files_scanned, lines_scanned, calls,
                 last, report, pc, exit_code, run, outputs, seen, io, fire>>

\* Mutant of LoopBody: the body without its try/except, so that a file
\* that cannot be read or analysed ends the scan.
LoopBody_Abort(e) ==
  /\ pc = "walk"
  /\ e \in pending
  /\ pending' = pending \ {e}
  /\ IF IsExcluded(e)
       THEN UNCHANGED <<findings, finding_counter, files_scanned, lines_scanned, calls, last,
                        pc, exit_code>>
       ELSE IF ReadRaises(e)
         THEN /\ pc' = "crashed"
              /\ exit_code' = 1
              /\ UNCHANGED <<findings, finding_counter, files_scanned, lines_scanned, calls,
                             last>>
         ELSE LET r == scan_file(e, finding_counter)
              IN /\ lines_scanned' = lines_scanned + Len(tree[e].lines)
                 /\ files_scanned' = files_scanned + 1
                 /\ finding_counter' = r.counter
                 /\ findings' = findings \o r.findings
                 /\ calls' = Append(calls, e)
                 /\ last' = [entry |-> e, textual |-> r.textual, raised |-> r.raised]
                 /\ pc' = IF r.raised THEN "crashed" ELSE "walk"
                 /\ exit_code' = IF r.raised THEN 1 ELSE exit_code
  /\ UNCHANGED <<inputs, extsLeft, report, run, outputs, seen, io, fire>>

\* One iteration of the inner loop on entry e, lines 522-537.
LoopBody(e) ==
  /\ pc = "walk"
  /\ e \in pending
  /\ pending' = pending \ {e}
  /\ IF IsExcluded(e) \/ ReadRaises(e)
       THEN UNCHANGED <<findings, finding_counter, files_scanned, lines_scanned, calls, last>>
       ELSE LET r == scan_file(e, finding_counter)
            IN /\ lines_scanned' = lines_scanned + Len(tree[e].lines)
               /\ files_scanned' = files_scanned + 1
               /\ finding_counter' = r.counter
               /\ findings' = IF r.raised THEN findings ELSE findings \o r.findings
               /\ calls' = Append(calls, e)
               /\ last' = [entry |-> e, textual |-> r.textual, raised |-> r.raised]
  /\ UNCHANGED <<inputs, extsLeft, report, pc, exit_code, run, outputs, seen, io, fire>>

WalkDone == pending = {} /\ \A ext \in extsLeft : Rglob(ext) = {}

\* self.findings.extend(self.scan_dependencies()), line 540.  An exception
\* leaves scan() and main(): the interpreter prints it and exits with 1.
ScanDependencies ==
  /\ pc = "walk"
  /\ WalkDone
  /\ LET d == scan_dependencies(finding_counter)
     IN /\ finding_counter' = d.counter
        /\ IF d.raised
             THEN /\ pc' = "crashed"
                  /\ exit_code' = 1
                  /\ UNCHANGED findings
             ELSE /\ pc' = "sort"
                  /\ findings' = findings \o d.findings
                  /\ UNCHANGED exit_code
  /\ UNCHANGED <<inputs, files_scanned, lines_scanned, extsLeft, pending, calls, last,
                 report, run, outputs, seen, io, fire>>

\* Lines 542-562: sort in place and return the report.
SortAndReturn ==
  /\ pc = "sort"
  /\ findings' = SortBySeverity(findings)
  /\ report' = [returned |-> TRUE, project_path |-> root.path,
                files_scanned |-> files_scanned, lines_scanned |-> lines_scanned]
  /\ seen' = Append(seen, SortBySeverity(findings))
  /\ pc' = "returned"
  /\ UNCHANGED <<inputs, finding_counter, files_scanned, lines_scanned, extsLeft, pending,
                 calls, last, exit_code, run, outputs, io, fire>>

\* main(), lines 699-733: render the report as the flags ask and exit.
\* The flags are parsed at lines 700-707 and first used here.
MainExit(a) ==
  /\ pc = "returned"
  /\ argv' = a
  /\ LET r == Render(a, report, findings)
     IN /\ stdout' = stdout \o r.printed
        /\ written' = r.written
  /\ outputs' = Append(outputs, to_dict(report, findings))
  /\ exit_code' = ExitCode(findings)
  /\ pc' = "exited"
  /\ UNCHANGED <<inputs, findings, finding_counter, files_scanned, lines_scanned, extsLeft,
                 pending, calls, last, report, run, seen, fire>>

\* The command is invoked again on the unchanged project: a new process
\* and a new SecurityAuditor.
Reinvoke ==
  /\ pc \in {"exited", "crashed"}
  /\ run < MaxRuns
  /\ run' = run + 1
  /\ findings' = <<>>
  /\ finding_counter' = 0
  /\ files_scanned' = 0
  /\ lines_scanned' = 0
  /\ extsLeft' = Extensions
  /\ pending' = {}
  /\ calls' = <<>>
  /\ last' = NoCall
  /\ report' = NoReport
  /\ pc' = "constructed"
  /\ exit_code' = NoExit
  /\ seen' = <<>>
  /\ argv' = NoArgs
  /\ stdout' = <<Banner>>
  /\ written' = NoFile
  /\ UNCHANGED <<inputs, outputs, fire>>

\* A library caller calls scan() once more on the auditor it already has.
ScanAgain ==
  /\ pc = "returned"
  /\ Len(seen) < MaxScans
  /\ pc' = "walk"
  /\ files_scanned' = 0
  /\ lines_scanned' = 0
  /\ extsLeft' = Extensions
  /\ pending' = {}
  /\ calls' = <<>>
  /\ UNCHANGED <<inputs, findings, finding_counter, last, report, exit_code, run, outputs,
                 seen, io, fire>>

Next ==
  \/ ScanStart
  \/ \E ext \in Extensions : NextExt(ext)
  \/ \E e \in EntryNames : LoopBody(e)
  \/ ScanDependencies
  \/ SortAndReturn
  \/ \E a \in ArgvFlags : MainExit(a)
  \/ Reinvoke

Spec == Init /\ [][Next]_vars

\* The auditor used as a library: scan() may be called again on the same
\* object; nothing is printed and the process does not exit.
NextLib ==
  \/ ScanStart
  \/ \E ext \in Extensions : NextExt(ext)
  \/ \E e \in EntryNames : LoopBody(e)
  \/ ScanDependencies
  \/ SortAndReturn
  \/ ScanAgain

SpecLib == Init /\ [][NextLib]_vars

\* A registry in which the pattern of rule k does not compile (a rule
\* added to the table with a malformed pattern).
WithBadPattern(k) ==
  [j \in 1..Len(LoadSecurityPatterns) |->
     IF j = k THEN [LoadSecurityPatterns[j] EXCEPT !.pattern = BadPattern]
     ELSE LoadSecurityPatterns[j]]

BadPositions == {2, 9}

InitCfg ==
  /\ \E p \in Projects : root = p.root /\ tree = p.tree /\ manifests = p.manifests
  /\ \E k \in BadPositions : patterns = WithBadPattern(k)
  /\ Fresh
  /\ run = 1
  /\ outputs = <<>>
  /\ FireIdle

SpecCfg == InitCfg /\ [][Next]_vars

\* ------------------------------------------------------- aol_fire actions
\* The auditor's variables while aol_fire is modelled.
AuditorIdle ==
  /\ root = NormalRoot /\ tree = EmptyTree /\ manifests = NoManifests
  /\ patterns = LoadSecurityPatterns
  /\ Fresh
  /\ run = 1
  /\ outputs = <<>>

\* graph.invoke(create_initial_state(goal, config)), core.py lines 337-338.
InitFire ==
  /\ AuditorIdle
  /\ \E c \in Configs : state = create_initial_state(c)
  /\ node = "planner"
  /\ trace = <<>>
  /\ result = NoResult
  /\ route = NoRoute
  /\ plan = NoPlan

\* What the trace records of a node's run: the task it took up (0 for
\* none) and the iteration counter it found.
Ran(name, task) == [node |-> name, task |-> task, iteration |-> state.iteration]

PlannerStep(n) ==
  /\ node = "planner"
  /\ state' = planner_node(state, n)
  /\ node' = Edge(after_planning(state'))
  /\ trace' = Append(trace, Ran("planner", 0))
  /\ UNCHANGED <<auditor, result, route, plan>>

ExecutorStep(script) ==
  /\ node = "executor"
  /\ state' = executor_node(state, script)
  /\ result' = IF state.plan.exists /\ current_task(state.plan) # 0
                 THEN execute_task(script) ELSE result
  /\ node' = Edge(should_continue(state'))
  /\ trace' = Append(trace, Ran("executor", current_task(state.plan)))
  /\ UNCHANGED <<auditor, route, plan>>

ReviewerStep ==
  /\ node = "reviewer"
  /\ state' = reviewer_node(state)
  /\ node' = "reporter"
  /\ trace' = Append(trace, Ran("reviewer", 0))
  /\ UNCHANGED <<auditor, result, route, plan>>

ReporterStep ==
  /\ node = "reporter"
  /\ state' = reporter_node(state)
  /\ node' = "END"
  /\ trace' = Append(trace, Ran("reporter", 0))
  /\ UNCHANGED <<auditor, result, route, plan>>

NextFire ==
  \/ \E n \in 1..MaxTasks : PlannerStep(n)
  \/ \E script \in Scripts : ExecutorStep(script)
  \/ ReviewerStep
  \/ ReporterStep

SpecFire == InitFire /\ [][NextFire]_vars

\* The graph runs a node whenever one is due.
SpecFireLive == InitFire /\ [][NextFire]_vars /\ WF_vars(NextFire)

\* A caller hands a state of its own making to should_continue, as the
\* tests do.
RouterPlans ==
  {NoPlan} \cup
  {[exists |-> TRUE, status |-> "executing",
    tasks |-> [i \in 1..Len(sts) |-> [Task(Title(i)) EXCEPT !.status = sts[i]]]] :
     sts \in SeqsUpTo(TaskStatus, MaxRouterTasks)}

RouterStates ==
  {[create_initial_state(c) EXCEPT !.plan = p, !.iteration = i, !.error = e] :
     c \in Configs, p \in RouterPlans, i \in 0..(MaxIterations + 1),
     e \in {NoneValue, "Something wrong"}}

InitRouter ==
  /\ AuditorIdle
  /\ state \in RouterStates
  /\ node = "caller"
  /\ trace = <<>>
  /\ result = NoResult
  /\ route = NoRoute
  /\ plan = NoPlan

CallShouldContinue ==
  /\ node = "caller"
  /\ route = NoRoute
  /\ route' = should_continue(state)
  /\ UNCHANGED <<auditor, state, node, trace, result, plan>>

NextRouter == CallShouldContinue

SpecRouter == InitRouter /\ [][NextRouter]_vars

\* A caller builds a Plan and works on its tasks, as the tests do.
InitPlan ==
  /\ AuditorIdle
  /\ state = create_initial_state([max_iterations |-> 1, enable_code_review |-> FALSE])
  /\ node = "caller"
  /\ trace = <<>>
  /\ result = NoResult
  /\ route = NoRoute
  /\ plan = Plan

AddTask ==
  /\ Len(plan.tasks) < MaxTasks
  /\ plan' = add_task(plan, Title(Len(plan.tasks) + 1))
  /\ UNCHANGED <<auditor, state, node, trace, result, route>>

StartTask(i) ==
  /\ i \in 1..Len(plan.tasks)
  /\ plan' = [plan EXCEPT !.tasks[i] = start(@)]
  /\ UNCHANGED <<auditor, state, node, trace, result, route>>

CompleteTask(i) ==
  /\ i \in 1..Len(plan.tasks)
  /\ plan' = [plan EXCEPT !.tasks[i] = complete(@, "Done")]
  /\ UNCHANGED <<auditor, state, node, trace, result, route>>

FailTask(i) ==
  /\ i \in 1..Len(plan.tasks)
  /\ plan' = [plan EXCEPT !.tasks[i] = fail(@, "Boom")]
  /\ UNCHANGED <<auditor, state, node, trace, result, route>>

NextPlan ==
  \/ AddTask
  \/ \E i \in 1..MaxTasks : StartTask(i)
  \/ \E i \in 1..MaxTasks : CompleteTask(i)
  \/ \E i \in 1..MaxTasks : FailTask(i)

SpecPlan == InitPlan /\ [][NextPlan]_vars

\* ---------------------------------------------------------------- claims
Returned == pc \in {"returned", "exited"}

\* The number an id was formatted from.
RECURSIVE DigitsValue(_)
DigitsValue(ds) ==
  IF ds = <<>> THEN 0 ELSE 10 * DigitsValue(SubSeq(ds, 1, Len(ds) - 1)) + ds[Len(ds)]

IdNumber(id) == DigitsValue(Tail(id))

IdsOf(fs) == {fs[i].id : i \in 1..Len(fs)}

\* C1: when scan() has returned, the ids of the report's findings are
\* exactly NF-0001 .. NF-000N, N the number of findings, each once.
C1_IdsAreOneToN ==
  Returned =>
    /\ IdsOf(findings) = {FormatId(n) : n \in 1..Len(findings)}
    /\ Cardinality(IdsOf(findings)) = Len(findings)

\* C2: in the returned report the severity ranks never decrease along the
\* list, and findings of equal severity stand in ascending id number (the
\* order of their discovery).
C2_SortedAndStable ==
  Returned =>
    \A i \in 1..Len(findings) : \A j \in 1..Len(findings) :
      i < j =>
        /\ severity_order(findings[i].severity) <= severity_order(findings[j].severity)
        /\ findings[i].severity = findings[j].severity
             => IdNumber(findings[i].id) < IdNumber(findings[j].id)

\* C2 witness: a returned report with two severities in which a finding of
\* src/b.js precedes one of a.py of the same severity (path order would
\* put a.py first).
C2_Witness ==
  /\ pc = "returned"
  /\ \E i \in 1..Len(findings) : \E j \in 1..Len(findings) :
       /\ i < j
       /\ findings[i].severity = findings[j].severity
       /\ findings[i].file_path = "src/b.js"
       /\ findings[j].file_path = "a.py"
  /\ \E i \in 1..Len(findings) : findings[i].severity # findings[1].severity

\* C3: two invocations on the unchanged project give equal to_dict()
\* outputs (scan_time and duration_ms left out).
C3_Deterministic ==
  \A a \in 1..Len(outputs) : \A b \in 1..Len(outputs) : outputs[a] = outputs[b]

\* C4: after a completed scan the exit status is 2 with a CRITICAL finding,
\* 1 with a HIGH and no CRITICAL finding, 0 otherwise.
C4_ExitCodes ==
  pc = "exited" =>
    LET sevs == {findings[i].severity : i \in 1..Len(findings)}
    IN exit_code = (IF "CRITICAL" \in sevs THEN 2 ELSE IF "HIGH" \in sevs THEN 1 ELSE 0)

\* C4 witness: the process exited with 1 on a report holding HIGH and INFO
\* findings and no CRITICAL one.
C4_Witness ==
  /\ pc = "exited"
  /\ exit_code = 1
  /\ \E i \in 1..Len(findings) : findings[i].severity = "INFO"
  /\ \E i \in 1..Len(findings) : findings[i].severity = "HIGH"

WeightedCounts(fs) ==
  weights("CRITICAL") * CountOf(fs, "CRITICAL") + weights("HIGH") * CountOf(fs, "HIGH")
  + weights("MEDIUM") * CountOf(fs, "MEDIUM") + weights("LOW") * CountOf(fs, "LOW")
  + weights("INFO") * CountOf(fs, "INFO")

OneMore(fs, sev) == Append(fs, [severity |-> sev])

\* C5: the risk score of the findings collected so far, and the one every
\* finished invocation printed, is the weighted sum of the severity counts
\* clamped to [0, 100], with weights strictly decreasing down to INFO = 0;
\* it lies in 0..100 and does not drop when one more CRITICAL, HIGH, MEDIUM
\* or LOW finding is counted.
C5_RiskScore ==
  /\ weights("CRITICAL") > weights("HIGH") /\ weights("HIGH") > weights("MEDIUM")
  /\ weights("MEDIUM") > weights("LOW") /\ weights("LOW") > weights("INFO")
  /\ weights("INFO") = 0
  /\ risk_score(findings) = Max(0, Min(100, WeightedCounts(findings)))
  /\ risk_score(findings) \in 0..100
  /\ \A sev \in {"CRITICAL", "HIGH", "MEDIUM", "LOW"} :
       risk_score(OneMore(findings, sev)) >= risk_score(findings)
  /\ \A k \in 1..Len(outputs) : outputs[k].summary.risk_score \in 0..100

\* C5 witness: a returned report whose weighted sum exceeds 100.
C5_Witness ==
  /\ pc = "returned"
  /\ WeightedCounts(findings) > 100
  /\ CountOf(findings, "MEDIUM") > 0

\* C6: with an existing directory as root, scan() never raises.
C6_ScanNeverRaises == root.kind = "dir" => pc # "crashed"

\* C7: with a root that is missing or not a directory, no report is
\* returned and the process does not exit with 0.
C7_PathErrorReported ==
  root.kind # "dir" => (~report.returned /\ exit_code # 0)

HasBadPattern == \E k \in 1..Len(patterns) : ReCompileRaises(patterns[k].pattern)

\* C8: with a rule whose pattern does not compile, no file is read, the id
\* counter stays at 0 and no report is returned.
C8_BadPatternIsFatal ==
  HasBadPattern =>
    /\ files_scanned = 0
    /\ calls = <<>>
    /\ finding_counter = 0
    /\ ~report.returned

\* The files the scan is to process: regular files with a supported
\* extension and no excluded directory among the components below the root.
DirsBelowRoot(e) == {Parts(e)[i] : i \in 1..(Len(Parts(e)) - 1)}

Eligible ==
  IF root.kind # "dir" THEN {}
  ELSE {e \in DOMAIN tree :
          /\ tree[e].kind = "file"
          /\ Suffix(e) \in Extensions
          /\ DirsBelowRoot(e) \cap ExcludedDirs = {}}

\* C9: when the walk is over, scan_file has been called once on each
\* eligible file and on nothing else, and files_scanned counts them,
\* wherever the root lies.
C9_ScansExactlyEligible ==
  pc \in {"sort", "returned", "exited"} =>
    /\ Range(calls) = Eligible
    /\ Len(calls) = Cardinality(Eligible)
    /\ files_scanned = Cardinality(Eligible)

\* The textual findings with rule k's title and category on line i.
HitsOf(textual, k, i) ==
  {n \in 1..Len(textual) :
     /\ textual[n].title = patterns[k].title
     /\ textual[n].category = patterns[k].category
     /\ textual[n].line_number = i}

\* C10: the textual pass of the last scan_file call holds exactly one
\* finding for each (rule, line) whose pattern matches the line and none
\* for the other pairs, and every finding carries its rule's category,
\* severity, title, description and recommendation, the file's path and a
\* line number of the file.
C10_OneFindingPerRuleAndLine ==
  last.entry # "" =>
    LET lines == tree[last.entry].lines
    IN /\ \A k \in 1..Len(patterns) : \A i \in 1..Len(lines) :
            Cardinality(HitsOf(last.textual, k, i))
              = (IF MatchCount(patterns[k].pattern, lines[i]) >= 1 THEN 1 ELSE 0)
       /\ \A n \in 1..Len(last.textual) :
            LET f == last.textual[n]
            IN /\ f.file_path = last.entry
               /\ f.line_number \in 1..Len(lines)
               /\ \E k \in 1..Len(patterns) :
                    /\ f.title = patterns[k].title
                    /\ f.category = patterns[k].category
                    /\ f.severity = patterns[k].severity
                    /\ f.description = patterns[k].description
                    /\ f.recommendation = patterns[k].recommendation
                    /\ MatchCount(patterns[k].pattern, lines[f.line_number]) >= 1

\* C10 witness: scan_file ran on a file with a line that one rule matches
\* twice and a line that three rules match, and gave four textual findings.
C10_Witness ==
  /\ last.entry # ""
  /\ \E i \in 1..Len(tree[last.entry].lines) : tree[last.entry].lines[i] = T_pw2
  /\ \E i \in 1..Len(tree[last.entry].lines) : tree[last.entry].lines[i] = T_multi
  /\ Len(last.textual) = 4

\* The files scan_file was called on whose AST analysis failed.
AstFailed == {e \in Range(calls) : Suffix(e) = ".py" /\ AstParse(tree[e].lines) # "ok"}

\* The (rule, line) pairs of file e that the textual scanner reports.
TextualHits(e) ==
  {<<k, i>> \in (1..Len(patterns)) \X (1..Len(tree[e].lines)) :
     MatchCount(patterns[k].pattern, tree[e].lines[i]) >= 1}

FindingsOfFile(fs, e) == {n \in 1..Len(fs) : fs[n].file_path = e}

\* C11: in the returned report, a file whose AST analysis failed has no
\* findings beyond its textual ones, and each of its textual findings (one
\* per rule and matching line) is present.
C11_TextualKeptWhenAstFails ==
  Returned =>
    \A e \in AstFailed :
      /\ \A h \in TextualHits(e) :
           \E n \in FindingsOfFile(findings, e) :
             /\ findings[n].title = patterns[h[1]].title
             /\ findings[n].line_number = h[2]
      /\ Cardinality(FindingsOfFile(findings, e)) = Cardinality(TextualHits(e))

\* The titles the AST inspector gives its findings.
AstTitles == {"Security Assert Statement", "Bare Except Clause", "Pickle Deserialization Risk"}

IsPrefix(a, b) == Len(a) <= Len(b) /\ SubSeq(b, 1, Len(a)) = a

\* The entries the loop reaches whose reading fails.
ReadFails(e) == ~IsExcluded(e) /\ ReadRaises(e)

\* The entries the loop reaches whose AST analysis fails.
AstFails(e) ==
  ~IsExcluded(e) /\ ~ReadRaises(e) /\ Suffix(e) = ".py" /\ AstParse(tree[e].lines) # "ok"

\* The iteration of the loop on entry e.
IterationOn(e) == pc = "walk" /\ e \in pending /\ pending' = pending \ {e}

\* C12: an iteration on a file that cannot be read adds nothing, one on a
\* file whose AST analysis fails adds no structural finding, and both leave
\* the findings collected so far in place, the other pending files pending
\* and the walk going; when the walk is over after such a failure, every
\* eligible file has been scanned.
C12_FileFailureRecovered ==
  /\ [][\A e \in EntryNames :
          IterationOn(e) /\ (ReadFails(e) \/ AstFails(e)) =>
            /\ pc' = "walk"
            /\ exit_code' = exit_code
            /\ IsPrefix(findings, findings')
            /\ ReadFails(e) => findings' = findings
            /\ \A n \in (Len(findings) + 1)..Len(findings') :
                 /\ findings'[n].file_path = e
                 /\ findings'[n].title \notin AstTitles]_vars
  /\ [](pc \in {"sort", "returned", "exited"}
          /\ (\E e \in DOMAIN tree : Suffix(e) \in Extensions /\ (ReadFails(e) \/ AstFails(e)))
        => Eligible \subseteq Range(calls))

\* C12 witness: the walk is over; pkg.py could not be read, the analysis of
\* a.py failed on a syntax error, a.py kept its textual findings and src/b.js,
\* scanned after a.py, has its findings too.
C12_Witness ==
  /\ pc = "sort"
  /\ calls = <<"a.py", "src/b.js">>
  /\ "pkg.py" \in DOMAIN tree /\ ReadFails("pkg.py")
  /\ AstFails("a.py") /\ AstParse(tree["a.py"].lines) = "SyntaxError"
  /\ FindingsOfFile(findings, "a.py") # {}
  /\ FindingsOfFile(findings, "src/b.js") # {}

\* C13: every report scan() has returned on this auditor still holds the
\* findings it was returned with (the reports share the auditor's list, so
\* each holds the current list), and each call returned what the first call
\* on the fresh auditor returned.
C13_ReportsReadOnly ==
  \A k \in 1..Len(seen) :
    /\ findings = seen[k]
    /\ seen[k] = seen[1]

\* How many times each finding occurs in a list.
BagOfSeq(fs) == [f \in Range(fs) |-> Cardinality({n \in 1..Len(fs) : fs[n] = f})]

\* C14: the sort step leaves the same findings, each with the id and every
\* other field it had before the step, only in another order; from the
\* return of scan() to the exit of the command the list does not change.
C14_SortIsPureReordering ==
  [][/\ pc = "sort" => /\ Len(findings') = Len(findings)
                       /\ BagOfSeq(findings') = BagOfSeq(findings)
     /\ pc = "returned" /\ pc' = "exited" => findings' = findings]_vars

\* C14 witness: a returned report that the sort reordered: a finding
\* created later stands before one created earlier.
C14_Witness ==
  /\ pc = "returned"
  /\ \E i \in 1..Len(findings) : \E j \in 1..Len(findings) :
       i < j /\ IdNumber(findings[i].id) > IdNumber(findings[j].id)

\* C15: while a scan collects, the findings stand in the order of their
\* creation and their id numbers rise along the list, none above the
\* counter, whichever scanner made them; in the returned report every
\* dependency finding has a larger id number than every finding of a source
\* file.
C15_OneCounterInDiscoveryOrder ==
  /\ pc \in {"walk", "sort"} =>
       /\ \A i \in 1..Len(findings) : \A j \in 1..Len(findings) :
            i < j => IdNumber(findings[i].id) < IdNumber(findings[j].id)
       /\ \A i \in 1..Len(findings) : IdNumber(findings[i].id) \in 1..finding_counter
  /\ Returned =>
       \A i \in 1..Len(findings) : \A j \in 1..Len(findings) :
         findings[i].category = "dependencies" /\ findings[j].category # "dependencies"
           => IdNumber(findings[i].id) > IdNumber(findings[j].id)

\* C15 witness: the collection is complete and holds a textual finding, a
\* structural finding and a dependency finding.
C15_Witness ==
  /\ pc = "sort"
  /\ \E i \in 1..Len(findings) : \E k \in 1..Len(patterns) :
       findings[i].title = patterns[k].title
  /\ \E i \in 1..Len(findings) : findings[i].title \in AstTitles
  /\ \E i \in 1..Len(findings) : findings[i].category = "dependencies"

\* The number of entries of severity sev among the serialized findings.
EntriesOf(doc, sev) == Cardinality({n \in 1..Len(doc.findings) : doc.findings[n].severity = sev})

\* C16: in every serialized report, total_findings is the number of
\* entries under findings and the sum of the five counts, each count is
\* the number of entries of its severity, and risk_score is 0 for no entry
\* and otherwise the smaller of 100 and 25, 15, 5, 2, 0 per critical, high,
\* medium, low, info entry.
C16_SummaryIsProjection ==
  \A k \in 1..Len(outputs) :
    LET doc == outputs[k]
        s == doc.summary
    IN /\ s.total_findings = Len(doc.findings)
       /\ s.total_findings = s.critical + s.high + s.medium + s.low + s.info
       /\ s.critical = EntriesOf(doc, "CRITICAL")
       /\ s.high = EntriesOf(doc, "HIGH")
       /\ s.medium = EntriesOf(doc, "MEDIUM")
       /\ s.low = EntriesOf(doc, "LOW")
       /\ s.info = EntriesOf(doc, "INFO")
       /\ s.risk_score =
            Min(100, 25 * EntriesOf(doc, "CRITICAL") + 15 * EntriesOf(doc, "HIGH")
                     + 5 * EntriesOf(doc, "MEDIUM") + 2 * EntriesOf(doc, "LOW"))

\* C16 witness: a serialized report with findings of all five severities.
C16_Witness ==
  /\ pc = "exited"
  /\ LET s == outputs[Len(outputs)].summary
     IN s.critical > 0 /\ s.high > 0 /\ s.medium > 0 /\ s.low > 0 /\ s.info > 0

\* The finding subsections of a markdown document, in document order.
MdEntries(md) == SelectSeq(md.sections, LAMBDA x : x.kind = "finding")

\* The markdown documents the command has produced: printed or written.
MarkdownDocs ==
  {stdout[i].doc : i \in {n \in 1..Len(stdout) : stdout[n].kind = "markdown"}}
    \cup (IF written.exists THEN {written.doc} ELSE {})

\* The structured documents the command has printed.
JsonDocs == {stdout[i].doc : i \in {n \in 1..Len(stdout) : stdout[n].kind = "json"}}

\* C17: serializing changes neither the report nor its list of findings,
\* and each document produced has one entry per finding of the report, the
\* n-th entry showing the n-th finding.
C17_SerializationsFaithful ==
  /\ [][pc = "returned" /\ pc' = "exited" => findings' = findings /\ report' = report]_vars
  /\ [](pc = "exited" =>
         /\ findings = seen[Len(seen)]
         /\ \A md \in MarkdownDocs :
              /\ Len(MdEntries(md)) = Len(findings)
              /\ \A n \in 1..Len(findings) :
                   LET x == MdEntries(md)[n]
                       f == findings[n]
                   IN /\ x.id = f.id /\ x.title = f.title /\ x.severity = f.severity
                      /\ x.file = f.file_path /\ x.line = f.line_number
                      /\ x.category = f.category /\ x.description = f.description
                      /\ x.code_snippet = f.code_snippet
                      /\ x.recommendation = f.recommendation
         /\ \A doc \in JsonDocs \cup {outputs[Len(outputs)]} :
              /\ Len(doc.findings) = Len(findings)
              /\ \A n \in 1..Len(findings) :
                   LET x == doc.findings[n]
                       f == findings[n]
                   IN /\ x.id = f.id /\ x.title = f.title /\ x.severity = f.severity
                      /\ x.location.file = f.file_path /\ x.location.line = f.line_number
                      /\ x.category = f.category /\ x.description = f.description
                      /\ x.code_snippet = f.code_snippet
                      /\ x.recommendation = f.recommendation
                      /\ x.references.cwe = f.cwe_id
                      /\ x.references.owasp = f.owasp_category)

\* C17 witness: the command printed the markdown document of a report
\* whose findings have several severities, one of them INFO.
C17_Witness ==
  /\ pc = "exited"
  /\ MarkdownDocs # {}
  /\ \E n \in 1..Len(findings) : findings[n].severity = "INFO"
  /\ \E n \in 1..Len(findings) : findings[n].severity = "CRITICAL"
  /\ \E md \in MarkdownDocs : Len(md.sections) > Len(findings) + 1

\* The findings of the dependency scanner in a list.
DependencyFindings(fs) == {n \in 1..Len(fs) : fs[n].category = "dependencies"}

\* The table entries some line of requirements.txt names.
MatchedEntries ==
  IF manifests.req.state # "file" THEN {}
  ELSE {k \in 1..Len(vulnerable_packages) :
          \E i \in 1..Len(manifests.req.lines) :
            InLower(vulnerable_packages[k].name, manifests.req.lines[i])}

\* C18: the returned report holds one finding for each table entry that
\* some line of requirements.txt names and none for the other entries,
\* however many lines name it, and at most one for package.json; every
\* dependency finding has line_number 1 and the path of its manifest, and
\* no other finding lies in a manifest.
C18_OneFindingPerTableEntry ==
  Returned =>
    /\ \A k \in 1..Len(vulnerable_packages) :
         Cardinality({n \in DependencyFindings(findings) :
                        findings[n].title = vulnerable_packages[k].title})
           = (IF k \in MatchedEntries THEN 1 ELSE 0)
    /\ Cardinality({n \in DependencyFindings(findings) :
                      findings[n].file_path = "package.json"}) <= 1
    /\ \A n \in DependencyFindings(findings) :
         /\ findings[n].line_number = 1
         /\ \/ /\ findings[n].file_path = "requirements.txt"
               /\ \E k \in MatchedEntries : findings[n].title = vulnerable_packages[k].title
            \/ /\ findings[n].file_path = "package.json"
               /\ findings[n].title = "Check Lodash Version"
    /\ \A n \in 1..Len(findings) :
         findings[n].file_path \in {"requirements.txt", "package.json"}
           => n \in DependencyFindings(findings)

\* C18 witness: both lines of requirements.txt name Django, package.json
\* lists lodash, and the returned report holds two dependency findings.
C18_Witness ==
  /\ Returned
  /\ manifests.req.state = "file"
  /\ manifests.req.lines = <<R_django, R_django>>
  /\ Cardinality(DependencyFindings(findings)) = 2
  /\ \E n \in DependencyFindings(findings) : findings[n].file_path = "package.json"

\* requirements.txt declares one dependency and there is no package.json.
SingleDependency ==
  /\ manifests.req.state = "file"
  /\ Len(manifests.req.lines) = 1
  /\ manifests.pkg.state = "absent"

\* C19 as stated: a project whose only manifest content is one declared
\* dependency that matches a table entry yields exactly one dependency
\* finding.
C19_SingleDependencyOneFinding ==
  Returned /\ SingleDependency /\ MatchedEntries # {} =>
    Cardinality(DependencyFindings(findings)) = 1

\* C19 amended: a project whose only manifest content is one dependency
\* line yields one dependency finding for each table entry whose package
\* name occurs anywhere in the lowered line: exactly one when the line holds
\* the name of exactly one entry (Django==2.0 gives the django finding),
\* with category dependencies, line 1 and file_path requirements.txt; a
\* pyyaml line whose comment mentions requests gives two.
C19_SingleDependencyPerNamedEntry ==
  Returned /\ SingleDependency =>
    /\ Cardinality(DependencyFindings(findings)) = Cardinality(MatchedEntries)
    /\ Cardinality(MatchedEntries) = 1 =>
         \E n \in 1..Len(findings) :
           /\ DependencyFindings(findings) = {n}
           /\ findings[n].category = "dependencies"
           /\ findings[n].line_number = 1
           /\ findings[n].file_path = "requirements.txt"
           /\ \E k \in MatchedEntries : findings[n].title = vulnerable_packages[k].title
    /\ manifests.req.lines = <<R_django>> =>
         \E n \in DependencyFindings(findings) :
           findings[n].title = "Django Security Update Required"
    /\ manifests.req.lines = <<R_yaml>> =>
         {findings[n].title : n \in DependencyFindings(findings)}
           = {"PyYAML Arbitrary Code Execution", "Requests CVE-2018-18074"}

\* C19 witness: requirements.txt is the one line Django==2.0, and the
\* returned report holds the one dependency finding for django<3.2.
C19_Witness ==
  /\ Returned
  /\ SingleDependency
  /\ manifests.req.lines = <<R_django>>
  /\ \E n \in 1..Len(findings) :
       /\ DependencyFindings(findings) = {n}
       /\ findings[n].title = "Django Security Update Required"

\* The kinds of the things printed after the banner.
PrintedKinds == {stdout[n].kind : n \in 2..Len(stdout)}

\* C20: when the command has exited, with --json the structured document
\* was printed and no file was written, with or without --output; with
\* --output <path> and no --json the markdown document was written to the
\* file and not printed; otherwise the markdown document was printed and no
\* file written.
C20_JsonTakesPrecedence ==
  pc = "exited" =>
    /\ Len(stdout) = 2
    /\ stdout[1] = Banner
    /\ argv.json =>
         /\ stdout[2].kind = "json"
         /\ stdout[2].doc = to_dict(report, findings)
         /\ written = NoFile
    /\ ~argv.json /\ argv.output = "path" =>
         /\ written.exists
         /\ written.doc = generate_report_markdown(report, findings)
         /\ PrintedKinds = {"saved"}
    /\ ~argv.json /\ argv.output # "path" =>
         /\ stdout[2].kind = "markdown"
         /\ stdout[2].doc = generate_report_markdown(report, findings)
         /\ written = NoFile

\* C20 witness: the command was given --json and --output <path>, found
\* something, printed the structured document and wrote no file.
C20_Witness ==
  /\ pc = "exited"
  /\ argv.json /\ argv.output = "path"
  /\ findings # <<>>
  /\ "json" \in PrintedKinds
  /\ ~written.exists

\* The categories a finding may have.
Categories ==
  {"secrets", "injection", "xss", "crypto", "auth", "logging", "code_quality", "dependencies"}

\* C21: every finding the auditor holds, every textual finding scan_file
\* built and every rule of the registry has a category of the closed set
\* and one of the five severities.
C21_ClosedCategoriesAndSeverities ==
  /\ \A n \in 1..Len(findings) :
       findings[n].category \in Categories /\ findings[n].severity \in SeveritySet
  /\ \A n \in 1..Len(last.textual) :
       last.textual[n].category \in Categories /\ last.textual[n].severity \in SeveritySet
  /\ \A k \in 1..Len(patterns) :
       patterns[k].category \in Categories /\ patterns[k].severity \in SeveritySet

\* C21 witness: the collection holds findings of the textual scanner, of
\* the AST inspector in both of its categories and of both manifests.
C21_Witness ==
  /\ pc = "sort"
  /\ \E n \in 1..Len(findings) : findings[n].category = "secrets"
  /\ \E n \in 1..Len(findings) : findings[n].title = "Security Assert Statement"
  /\ \E n \in 1..Len(findings) : findings[n].title = "Pickle Deserialization Risk"
  /\ \E n \in 1..Len(findings) : findings[n].file_path = "requirements.txt"
  /\ \E n \in 1..Len(findings) : findings[n].file_path = "package.json"

\* C24: the code_snippet of a textual finding at line L of a file of n
\* lines is the lines max(1, L-3) .. min(n, L+2) in order, each with its
\* 1-indexed number, and line L is among them.
C24_SnippetWindow ==
  last.entry # "" =>
    LET lines == tree[last.entry].lines
    IN \A m \in 1..Len(last.textual) :
         LET L == last.textual[m].line_number
             lo == Max(1, L - 3)
             hi == Min(Len(lines), L + 2)
             s == last.textual[m].code_snippet
         IN /\ Len(s) = hi - lo + 1
            /\ \A k \in 1..Len(s) : s[k] = <<lo + k - 1, lines[lo + k - 1]>>
            /\ \E k \in 1..Len(s) : s[k][1] = L

\* The place of a textual finding's rule in the registry, categories in
\* their order and the rules of a category in theirs.
RuleIndex(f) == CHOOSE k \in 1..Len(patterns) : patterns[k].title = f.title

IsTextual(f) == \E k \in 1..Len(patterns) : patterns[k].title = f.title

\* C25: of two findings of one file, a textual one has the smaller id
\* number exactly when its rule comes earlier in the registry, or the rule
\* is the same and its line is the earlier one; a structural finding has a
\* larger id number than every textual finding of its file.
C25_RuleByRuleWithinFile ==
  \A m \in 1..Len(findings) : \A n \in 1..Len(findings) :
    LET f == findings[m]
        g == findings[n]
    IN m # n /\ f.file_path = g.file_path =>
         /\ IsTextual(f) /\ IsTextual(g) =>
              (IdNumber(f.id) < IdNumber(g.id)
                 <=> \/ RuleIndex(f) < RuleIndex(g)
                     \/ RuleIndex(f) = RuleIndex(g) /\ f.line_number < g.line_number)
         /\ IsTextual(f) /\ g.title \in AstTitles => IdNumber(f.id) < IdNumber(g.id)

\* C25 witness: the returned report lists, among the findings of src/b.js
\* of one severity, one of a later line before one of an earlier line.
C25_Witness ==
  /\ Returned
  /\ \E m \in 1..Len(findings) : \E n \in 1..Len(findings) :
       /\ m < n
       /\ findings[m].file_path = "src/b.js" /\ findings[n].file_path = "src/b.js"
       /\ findings[m].severity = findings[n].severity
       /\ findings[m].line_number > findings[n].line_number

\* C26: every markdown document of a report with a CRITICAL or HIGH
\* finding has the PCI DSS row "Action Required", and in no markdown
\* document of a report with a CRITICAL finding does a row read "Compliant",
\* "No Critical Issues" or "Passing".
C26_ComplianceRows ==
  pc = "exited" =>
    \A md \in MarkdownDocs :
      /\ critical_count(findings) + high_count(findings) > 0
           => md.compliance.pci = "Action Required"
      /\ critical_count(findings) > 0 =>
           /\ md.compliance.owasp # "Compliant"
           /\ md.compliance.cwe # "No Critical Issues"
           /\ md.compliance.pci # "Passing"

\* C22: should_continue answers "reporter" for every state with an error
\* or with iteration >= max_iterations, whatever its plan, and answers
\* "executor" only for a state without error, below the limit, whose plan
\* has a PENDING task.
C22_RouterLimits ==
  route # NoRoute =>
    /\ (state.error # NoneValue \/ state.iteration >= state.max_iterations)
         => route = "reporter"
    /\ route = "executor" =>
         /\ state.error = NoneValue
         /\ state.iteration < state.max_iterations
         /\ state.plan.exists
         /\ \E i \in 1..Len(state.plan.tasks) : state.plan.tasks[i].status = "pending"

\* C22 witness: should_continue answered "reporter" for a state at its
\* iteration limit, without error, whose plan still has a PENDING task.
C22_Witness ==
  /\ route = "reporter"
  /\ state.error = NoneValue
  /\ state.iteration >= state.max_iterations
  /\ state.plan.exists
  /\ \E i \in 1..Len(state.plan.tasks) : state.plan.tasks[i].status = "pending"

\* C23: whatever was added, started, completed and failed, is_complete
\* holds exactly when no task is pending, queued, in progress or blocked,
\* pending_tasks is the PENDING tasks of the plan in plan order, and
\* completing a PENDING task leaves one task fewer in pending_tasks.
C23_PlanProjections ==
  /\ [](/\ is_complete(plan) <=>
             ~\E i \in 1..Len(plan.tasks) :
                plan.tasks[i].status \in {"pending", "queued", "in_progress", "blocked"}
        /\ LET P == pending_tasks(plan)
           IN /\ Len(P) = Cardinality({i \in 1..Len(plan.tasks) :
                                         plan.tasks[i].status = "pending"})
              /\ \A k \in 1..Len(P) :
                   /\ P[k].status = "pending"
                   /\ \E i \in 1..Len(plan.tasks) : plan.tasks[i] = P[k]
              /\ \A k \in 1..Len(P) : \A l \in 1..Len(P) :
                   k < l => P[k].title[2] < P[l].title[2])
  /\ [][\A i \in 1..Len(plan.tasks) :
          plan.tasks[i].status = "pending"
          /\ plan' = [plan EXCEPT !.tasks[i].status = "completed", !.tasks[i].output = "Done"]
          => Len(pending_tasks(plan')) = Len(pending_tasks(plan)) - 1]_vars

\* C23 witness: a plan whose first task failed and was then completed,
\* whose second task is in progress and whose third is PENDING.
C23_Witness ==
  /\ Len(plan.tasks) >= 3
  /\ plan.tasks[1].status = "completed" /\ plan.tasks[1].error # NoneValue
  /\ plan.tasks[2].status = "in_progress"
  /\ plan.tasks[3].status = "pending"
  /\ Len(pending_tasks(plan)) = 1
  /\ ~is_complete(plan)

\* The runs of the executor the trace records.
ExecutorRuns == {k \in 1..Len(trace) : trace[k].node = "executor"}

\* C27: every executor step takes the first PENDING task of the plan to
\* COMPLETED or FAILED and leaves the other tasks as they are; no task is
\* taken up twice and the executor runs at most once per task; and every
\* run reaches END.
C27_RunTerminates ==
  /\ [][node = "executor" =>
          \E i \in 1..Len(state.plan.tasks) :
            /\ state.plan.tasks[i].status = "pending"
            /\ \A j \in 1..(i - 1) : state.plan.tasks[j].status # "pending"
            /\ state'.plan.tasks[i].status \in {"completed", "failed"}
            /\ Len(state'.plan.tasks) = Len(state.plan.tasks)
            /\ \A j \in 1..Len(state.plan.tasks) :
                 j # i => state'.plan.tasks[j] = state.plan.tasks[j]]_vars
  /\ [](/\ \A k \in ExecutorRuns : \A l \in ExecutorRuns :
             k # l => trace[k].task # trace[l].task
        /\ \A k \in ExecutorRuns : trace[k].task \in 1..Len(state.plan.tasks)
        /\ Cardinality(ExecutorRuns) <= Len(state.plan.tasks))
  /\ <>(node = "END")

\* C27 witness: a run has reached END after the executor took up both
\* tasks of a plan of two, one of which failed.
C27_Witness ==
  /\ node = "END"
  /\ Len(state.plan.tasks) = 2
  /\ Cardinality(ExecutorRuns) = 2
  /\ state.plan.tasks[1].status = "failed"
  /\ state.plan.tasks[2].status = "completed"

\* C28: whenever the executor took up a task, the iteration counter it
\* found was below max_iterations.
C28_NoTaskAtTheLimit ==
  \A k \in ExecutorRuns :
    trace[k].task # 0 => trace[k].iteration < state.max_iterations

\* C29: a run that is at END has its final_output set and ran the reporter
\* last, and no executor step leads to END.
C29_EndOnlyThroughReporter ==
  /\ [](node = "END" =>
          /\ state.final_output # NoneValue
          /\ trace[Len(trace)].node = "reporter")
  /\ [][node = "executor" => node' # "END"]_vars

\* C29 witness: a run is at END whose executor finished the plan and whose
\* reviewer ran before the reporter.
C29_Witness ==
  /\ node = "END"
  /\ is_complete(state.plan)
  /\ \E k \in ExecutorRuns : TRUE
  /\ \E k \in 1..Len(trace) : trace[k].node = "reviewer"
  /\ state.final_output # NoneValue

\* C30: execute_task called the model at most 15 times, and its result
\* does not have success = True together with an error; the error is "Max
\* iterations reached" only for a result without success.
C30_CoderResult ==
  /\ result.calls <= 15
  /\ ~(result.success /\ result.error # NoneValue)
  /\ result.error = "Max iterations reached" => ~result.success /\ result.calls = 15

====
